---- MODULE Spec2Model ----
(***************************************************************************)
(* excelEnhance: annotation of workbooks (excelrefine.py), rendering of    *)
(* workbooks as Markdown (extract_xlsxcells.py) and reconstruction of      *)
(* grids from that Markdown (md2excel_tbl.py).                             *)
(*                                                                         *)
(* Text is modelled by TLA+ strings; Len, \o, SubSeq, Head and Tail act on *)
(* them character by character.  A cell value is a tagged record, because  *)
(* a cell holds nothing (PyNone), a string or a number.                      *)
(***************************************************************************)
EXTENDS Integers, Sequences, FiniteSets, TLC

VARIABLES
    ws0,          \* the worksheet as loaded: [cells, merged]
    ws,           \* the worksheet being annotated: [cells, merged]
    wsDone,       \* TRUE once unmerge_cells_and_annotate has returned
    col,          \* a column label handed to the conversion of line 40
    column,       \* the column number computed for it (0: not computed yet)
    colDone,      \* TRUE once the conversion has been applied
    content,      \* parse_markdown_to_table: the Markdown text given to it
    lines,        \* ... its local lines
    lineNo,       \* ... the number of lines the loop has consumed
    current_sheet, \* ... its local current_sheet (None or a string)
    current_data, \* ... its local current_data, a list of [position, data]
    tables,       \* ... its local tables, a dict in insertion order
    parsePc,      \* ... "idle", "loop" or "done"
    grid_tables,  \* create_excel_like_grid: the tables given to it
    grids,        \* ... the grids it returned
    gridPc,       \* ... "start", "done" or "raised"
    wb0,          \* the workbook as loaded: [sheetnames, sheets]
    wb,           \* the workbook as it is now
    calls,        \* the calls of excelrefine.annotate_sheet_structure so far
    unmerged,     \* the sheets process_excel_for_markdown has annotated
    summary,      \* what extract_xlsxcells.annotate_sheet_structure returned
    markdown_output, \* what generate_markdown_from_excel returned
    md_tables,    \* process_markdown_directory: its local tables
    outfile,      \* ... the sections it wrote to the output file
    outPc         \* ... "start", "done" or "raised"

sheetVars == <<ws0, ws, wsDone>>
colVars == <<col, column, colDone>>
parseVars == <<content, lines, lineNo, current_sheet, current_data, tables, parsePc>>
gridVars == <<grid_tables, grids, gridPc>>
bookVars == <<wb0, wb, calls, unmerged, summary, markdown_output, md_tables, outfile, outPc>>

vars == <<ws0, ws, wsDone, col, column, colDone,
          content, lines, lineNo, current_sheet, current_data, tables, parsePc,
          grid_tables, grids, gridPc,
          wb0, wb, calls, unmerged, summary, markdown_output, md_tables, outfile, outPc>>

---------------------------------------------------------------------------
(* Bounds of the model. *)

MaxRow == 2
MaxRanges == 2
MaxLabelLen == 2
MaxLines == 3
MaxEntries == 2
MaxSheets == 2
MaxCalls == 2

---------------------------------------------------------------------------
(* Python values and their conversions. *)

PyNone == [t |-> "none", s |-> "", n |-> 0]
PyStr(x) == [t |-> "str", s |-> x, n |-> 0]
PyInt(k) == [t |-> "int", s |-> "", n |-> k]

\* bool(v): PyNone, "" and 0 are falsy, everything else is truthy.
Truthy(v) ==
    CASE v.t = "none" -> FALSE
      [] v.t = "str" -> v.s # ""
      [] v.t = "int" -> v.n # 0

\* f"{v}": the text a value formats to inside an f-string.
Format(v) ==
    CASE v.t = "none" -> "None"
      [] v.t = "str" -> v.s
      [] v.t = "int" -> ToString(v.n)

---------------------------------------------------------------------------
(* Python strings, lists and dicts.                                        *)

CharAt(s, i) == SubSeq(s, i, i)
CharsOf(s) == {CharAt(s, i) : i \in 1..Len(s)}

\* s.startswith(p)
StartsWith(s, p) == Len(s) >= Len(p) /\ SubSeq(s, 1, Len(p)) = p

\* s[n:]
DropFirst(s, n) == SubSeq(s, n + 1, Len(s))

\* s.replace(old, ""): every occurrence of old, found from the left, is removed.
RECURSIVE Remove(_, _)
Remove(s, old) ==
    LET at == {i \in 1..Len(s) : StartsWith(DropFirst(s, i - 1), old)}
    IN  IF at = {} THEN s
        ELSE LET i == CHOOSE k \in at : \A j \in at : k <= j
             IN  SubSeq(s, 1, i - 1) \o Remove(DropFirst(s, i + Len(old) - 1), old)

\* The characters str.strip() removes.
Whitespace == {" ", "\t", "\n", "\r"}

RECURSIVE LStrip(_)
LStrip(s) == IF s # "" /\ Head(s) \in Whitespace THEN LStrip(Tail(s)) ELSE s

RECURSIVE RStrip(_)
RStrip(s) ==
    IF s # "" /\ CharAt(s, Len(s)) \in Whitespace
    THEN RStrip(SubSeq(s, 1, Len(s) - 1))
    ELSE s

\* s.strip()
Strip(s) == RStrip(LStrip(s))

\* The index of the first occurrence of character c in s (0: none).
Find(s, c) ==
    LET at == {i \in 1..Len(s) : CharAt(s, i) = c}
    IN  IF at = {} THEN 0 ELSE CHOOSE i \in at : \A j \in at : i <= j

\* s.split(c): the list of the pieces of s between the occurrences of c.
RECURSIVE Split(_, _)
Split(s, c) ==
    LET i == Find(s, c)
    IN  IF i = 0 THEN <<s>>
        ELSE <<SubSeq(s, 1, i - 1)>> \o Split(DropFirst(s, i), c)

\* s.split(c, 1): at most one split, at the first occurrence of c.
Split1(s, c) ==
    LET i == Find(s, c)
    IN  IF i = 0 THEN <<s>> ELSE <<SubSeq(s, 1, i - 1), DropFirst(s, i)>>

\* "\n".join(ls)
RECURSIVE JoinLines(_)
JoinLines(ls) ==
    IF ls = <<>> THEN ""
    ELSE IF Len(ls) = 1 THEN ls[1]
    ELSE ls[1] \o "\n" \o JoinLines(Tail(ls))

\* A dict is the list of its [key, val] items in insertion order.
DictKeys(d) == {d[i].key : i \in 1..Len(d)}
DictGet(d, k) == d[CHOOSE i \in 1..Len(d) : d[i].key = k].val

\* d[k] = v: a new key is appended, an old key keeps its place.
DictSet(d, k, v) ==
    IF k \in DictKeys(d)
    THEN [i \in 1..Len(d) |-> IF d[i].key = k THEN [key |-> k, val |-> v] ELSE d[i]]
    ELSE Append(d, [key |-> k, val |-> v])

Range(f) == {f[i] : i \in DOMAIN f}

---------------------------------------------------------------------------
(* Worksheets: cells by (row, column), merged ranges by their corners.     *)

ColLetters == "ABC"
Rows == 1..MaxRow
Cols == 1..Len(ColLetters)
Cells == Rows \X Cols

\* openpyxl.utils.get_column_letter, for the columns of the model.
get_column_letter(c) == SubSeq(ColLetters, c, c)

Coordinate(r, c) == get_column_letter(c) \o ToString(r)

\* str(merged_range): "A1:B2".
RangeStr(m) ==
    Coordinate(m.min_row, m.min_col) \o ":" \o Coordinate(m.max_row, m.max_col)

RangeCells(m) == (m.min_row..m.max_row) \X (m.min_col..m.max_col)

TopLeft(m) == <<m.min_row, m.min_col>>

\* Every rectangle of at least two cells.
AllRanges ==
    {m \in [min_row : Rows, min_col : Cols, max_row : Rows, max_col : Cols] :
        /\ m.min_row <= m.max_row
        /\ m.min_col <= m.max_col
        /\ <<m.min_row, m.min_col>> # <<m.max_row, m.max_col>>}

NonOverlapping(S) ==
    \A a \in S : \A b \in S : a # b => RangeCells(a) \cap RangeCells(b) = {}

\* The values a loaded cell holds in the model.
CellValues == {PyNone, PyStr(""), PyStr("Hello"), PyInt(0), PyInt(7)}
Fillers == {PyNone, PyStr("x")}

\* ws.unmerge_cells(str_range): the range leaves ws.merged_cells; its cells
\* other than the top-left one are dropped and read as empty from then on.
UnmergeCells(w, m) ==
    [cells |-> [c \in Cells |->
                    IF c \in RangeCells(m) /\ c # TopLeft(m) THEN PyNone
                    ELSE w.cells[c]],
     merged |-> w.merged \ {m}]

\* The copy written into every cell of the range (line 37).
CopiedValue(merged_value) ==
    IF Truthy(merged_value) THEN merged_value ELSE PyStr("")

\* The annotation written into the top-left cell (lines 41-44).
AnnotatedValue(merged_value, str_range) ==
    IF Truthy(merged_value)
    THEN PyStr(Format(merged_value) \o "##MergedRange=" \o str_range)
    ELSE PyStr("##MergedRange=" \o str_range)

\* UnmergeOne with the column loop running one column too far.
UnmergeOneSpill(w, m) ==
    LET str_range == RangeStr(m)
        merged_value == w.cells[TopLeft(m)]
        u == UnmergeCells(w, m)
        written == (m.min_row..m.max_row) \X (m.min_col..(m.max_col + 1))
    IN  [cells |-> [c \in Cells |->
                        IF c = TopLeft(m) THEN AnnotatedValue(merged_value, str_range)
                        ELSE IF c \in written THEN CopiedValue(merged_value)
                        ELSE u.cells[c]],
         merged |-> u.merged]

\* One iteration of the loop of unmerge_cells_and_annotate (lines 26-44).
UnmergeOne(w, m) ==
    LET str_range == RangeStr(m)
        merged_value == w.cells[TopLeft(m)]
        u == UnmergeCells(w, m)
    IN  [cells |-> [c \in Cells |->
                        IF c = TopLeft(m) THEN AnnotatedValue(merged_value, str_range)
                        ELSE IF c \in RangeCells(m) THEN CopiedValue(merged_value)
                        ELSE u.cells[c]],
         merged |-> u.merged]

\* The loop over merged_ranges, a list in the order the library gives it.
RECURSIVE UnmergeAll(_, _)
UnmergeAll(w, merged_ranges) ==
    IF merged_ranges = <<>> THEN w
    ELSE UnmergeAll(UnmergeOne(w, Head(merged_ranges)), Tail(merged_ranges))

\* Every order in which list(ws.merged_cells.ranges) can list a set of ranges.
Orders(S) ==
    {o \in [1..Cardinality(S) -> S] : \A i, j \in 1..Cardinality(S) : i # j => o[i] # o[j]}

\* The sets of at most k pairwise non-overlapping merged ranges.
RECURSIVE RangeSets(_)
RangeSets(k) ==
    IF k = 0 THEN {{}}
    ELSE LET P == RangeSets(k - 1)
         IN  P \cup {T \cup {m} : <<T, m>> \in
                        {x \in P \X AllRanges : NonOverlapping(x[1] \cup {x[2]})}}

\* A loaded worksheet: merged ranges S, the value tl[m] in the top-left cell of
\* range m, nothing in its other cells, the filler f in the cells outside.
Worksheet(S, tl, f) ==
    [cells |-> [c \in Cells |->
                  IF \E m \in S : c = TopLeft(m)
                  THEN tl[CHOOSE m \in S : c = TopLeft(m)]
                  ELSE IF \E m \in S : c \in RangeCells(m) THEN PyNone
                  ELSE f],
     merged |-> S]

SheetIdle == [cells |-> <<>>, merged |-> {}]

IdleSheet == ws0 = SheetIdle /\ ws = SheetIdle /\ wsDone = FALSE
IdleColumn == col = "" /\ column = 0 /\ colDone = FALSE
IdleParse ==
    /\ content = ""
    /\ lines = <<>>
    /\ lineNo = 0
    /\ current_sheet = PyNone
    /\ current_data = <<>>
    /\ tables = <<>>
    /\ parsePc = "idle"
IdleGrid == grid_tables = <<>> /\ grids = <<>> /\ gridPc = "start"
BookIdle == [sheetnames |-> <<>>, sheets |-> <<>>]
IdleBookOutputs ==
    /\ calls = 0
    /\ unmerged = {}
    /\ summary = ""
    /\ markdown_output = ""
    /\ md_tables = <<>>
    /\ outfile = <<>>
    /\ outPc = "start"
IdleBook == wb0 = BookIdle /\ wb = BookIdle /\ IdleBookOutputs

\* The worksheet has at most MaxRanges merged ranges, which do not overlap.
InitSheet ==
    /\ \E S \in RangeSets(MaxRanges) : \E tl \in [S -> CellValues] : \E f \in Fillers :
          /\ ws0 = Worksheet(S, tl, f)
          /\ ws = Worksheet(S, tl, f)
    /\ wsDone = FALSE
    /\ IdleColumn
    /\ IdleParse
    /\ IdleGrid
    /\ IdleBook

\* unmerge_cells_and_annotate(ws)
UnmergeCellsAndAnnotate ==
    /\ ~wsDone
    /\ \E merged_ranges \in Orders(ws.merged) :
          ws' = UnmergeAll(ws, merged_ranges)
    /\ wsDone' = TRUE
    /\ UNCHANGED <<ws0, colVars, parseVars, gridVars, bookVars>>

NextSheet == UnmergeCellsAndAnnotate

SpecSheet == InitSheet /\ [][NextSheet]_vars

\* The merged range of the loaded worksheet that holds cell c, if any.
OwnersOf(c) == {m \in ws0.merged : c \in RangeCells(m)}

\* C1: after unmerge_cells_and_annotate, for every merged range R whose
\* top-left cell held V: the top-left cell is V followed by ##MergedRange=<R>
\* when V is non-empty (any string but "", any number, 0 included) and exactly
\* ##MergedRange=<R> when V is empty; every other cell of R is V (the empty
\* string when V is empty); and no merged range is left.
C1_AnnotationForEveryNonEmptyValue ==
    wsDone =>
        /\ ws.merged = {}
        /\ \A m \in ws0.merged :
              LET V == ws0.cells[TopLeft(m)]
                  nonEmpty == V # PyNone /\ V # PyStr("")
              IN  /\ ws.cells[TopLeft(m)] =
                        IF nonEmpty
                        THEN PyStr(Format(V) \o "##MergedRange=" \o RangeStr(m))
                        ELSE PyStr("##MergedRange=" \o RangeStr(m))
                  /\ \A c \in RangeCells(m) \ {TopLeft(m)} :
                        ws.cells[c] = IF nonEmpty THEN V ELSE PyStr("")

\* C10: whatever the order in which the merged ranges are processed, the
\* final value of every cell is a function of the loaded worksheet alone:
\* the annotation in a range's top-left cell, the copy in its other cells,
\* and the loaded value, unchanged, in every cell outside all ranges.
C10_OrderIndependent ==
    wsDone =>
        \A c \in Cells :
            IF OwnersOf(c) = {} THEN ws.cells[c] = ws0.cells[c]
            ELSE LET m == CHOOSE m \in OwnersOf(c) : TRUE
                     V == ws0.cells[TopLeft(m)]
                     kept == Truthy(V)
                 IN  ws.cells[c] =
                        IF c = TopLeft(m)
                        THEN PyStr((IF kept THEN Format(V) ELSE "")
                                   \o "##MergedRange=" \o RangeStr(m))
                        ELSE IF kept THEN V ELSE PyStr("")

\* Two ranges were processed (in either order) and a cell outside both is left.
C10_Witness ==
    /\ wsDone
    /\ Cardinality(ws0.merged) = 2
    /\ \E c \in Cells : OwnersOf(c) = {} /\ ws.cells[c] = PyStr("x")
    /\ \E m \in ws0.merged : ws0.cells[TopLeft(m)] = PyStr("Hello")

---------------------------------------------------------------------------
(* Column letters to column number (md2excel_tbl.py, line 40).             *)

UpperLetters == "ABCDEFGHIJKLMNOPQRSTUVWXYZ"
Digits == "0123456789"

\* The position of character c in alphabet a (0 when it is not there).
IndexIn(a, c) ==
    IF \E i \in 1..Len(a) : CharAt(a, i) = c
    THEN CHOOSE i \in 1..Len(a) : CharAt(a, i) = c
    ELSE 0

\* ord(c) for an uppercase letter: ord("A") = 65.
Ord(c) == 64 + IndexIn(UpperLetters, c)

\* reversed(s)
RECURSIVE Reversed(_)
Reversed(s) == IF s = "" THEN "" ELSE Reversed(Tail(s)) \o Head(s)

\* sum(f(i, c) for i, c in enumerate(s)) with f(i, c) = (ord(c) - 64) * 26 ** i;
\* enumerate counts from 0.
RECURSIVE SumEnumerate(_, _)
SumEnumerate(s, i) ==
    IF s = "" THEN 0
    ELSE (Ord(Head(s)) - 64) * (26 ^ i) + SumEnumerate(Tail(s), i + 1)

\* The conversion with enumerate(col) in place of enumerate(reversed(col)).
ColumnNumberNotReversed(c) == SumEnumerate(c, 0)

\* lambda col: sum((ord(c) - 64) * (26 ** i) for i, c in enumerate(reversed(col)))
ColumnNumber(c) == SumEnumerate(Reversed(c), 0)

\* The labels of 1..k uppercase letters.
RECURSIVE Labels(_)
Labels(k) ==
    IF k = 0 THEN {}
    ELSE LET P == Labels(k - 1)
         IN  CharsOf(UpperLetters) \cup P \cup {l \o c : l \in P, c \in CharsOf(UpperLetters)}

InitColumn ==
    /\ col \in Labels(MaxLabelLen)
    /\ column = 0
    /\ colDone = FALSE
    /\ IdleSheet
    /\ IdleParse
    /\ IdleGrid
    /\ IdleBook

\* The lambda of line 40 applied to one label.
ConvertColumn ==
    /\ ~colDone
    /\ column' = ColumnNumber(col)
    /\ colDone' = TRUE
    /\ UNCHANGED <<col, sheetVars, parseVars, gridVars, bookVars>>

NextColumn == ConvertColumn

SpecColumn == InitColumn /\ [][NextColumn]_vars

\* The value of a label in the bijective base-26 numeral system, read digit
\* by digit from the left: value(l c) = 26 * value(l) + digit(c), A = 1 .. Z = 26.
RECURSIVE BijectiveValue(_, _)
BijectiveValue(s, acc) ==
    IF s = "" THEN acc
    ELSE BijectiveValue(Tail(s), 26 * acc + IndexIn(UpperLetters, Head(s)))

\* The label of n >= 1 in the bijective base-26 numeral system.
RECURSIVE ToLetters(_)
ToLetters(n) ==
    IF n <= 0 THEN ""
    ELSE LET d == ((n - 1) % 26) + 1
         IN  ToLetters((n - d) \div 26) \o CharAt(UpperLetters, d)

\* The number of labels of at most k letters: 26 + 26^2 + .. + 26^k.
RECURSIVE NumLabels(_)
NumLabels(k) == IF k = 0 THEN 0 ELSE 26 ^ k + NumLabels(k - 1)

\* C6: the column number computed for a label of uppercase letters is its
\* value in the bijective base-26 numeral system (A=1, Z=26, AA=27, AZ=52,
\* BA=53); the label is recovered from the number, so distinct labels get
\* distinct numbers; and the numbers of the labels of at most MaxLabelLen
\* letters lie in 1..NumLabels(MaxLabelLen), as many numbers as there are
\* labels, so each number of that range belongs to exactly one label.
C6_BijectiveBase26 ==
    colDone =>
        /\ column = BijectiveValue(col, 0)
        /\ ToLetters(column) = col
        /\ column \in 1..NumLabels(MaxLabelLen)
        /\ (col = "A" => column = 1)
        /\ (col = "Z" => column = 26)
        /\ (col = "AA" => column = 27)
        /\ (col = "AZ" => column = 52)
        /\ (col = "BA" => column = 53)

\* The conversion has been applied to the two-letter label BA.
C6_Witness == colDone /\ col = "BA" /\ column = 53

---------------------------------------------------------------------------
(* parse_markdown_to_table (md2excel_tbl.py, lines 11-32).                 *)

\* The locals the loop carries from line to line.
ParseState(sheet, data, tbls) ==
    [current_sheet |-> sheet, current_data |-> data, tables |-> tbls]

\* `current_sheet and current_data` (lines 19 and 30).
SheetHasData(st) == Truthy(st.current_sheet) /\ st.current_data # <<>>

\* tables[current_sheet] = pd.DataFrame(current_data, ...) when the test holds.
Finalize(st) ==
    IF SheetHasData(st)
    THEN DictSet(st.tables, st.current_sheet.s, st.current_data)
    ELSE st.tables

\* The sheet name of a "## " line (line 21).
SheetNameOf(line) == Strip(Remove(line, "## "))

\* cell_info of a "### " line (line 24).
CellInfo(line) == Split1(Remove(line, "### "), ":")

\* The body of the loop for one line (lines 18-28).
ParseLine(st, line) ==
    IF StartsWith(line, "## ")
    THEN ParseState(PyStr(SheetNameOf(line)), <<>>, Finalize(st))
    ELSE IF StartsWith(line, "### ") /\ Truthy(st.current_sheet)
    THEN LET cell_info == CellInfo(line)
         IN  IF Len(cell_info) = 2
             THEN ParseState(st.current_sheet,
                             Append(st.current_data,
                                    <<Strip(cell_info[1]), Strip(cell_info[2])>>),
                             st.tables)
             ELSE st
    ELSE st

RECURSIVE ParseLines(_, _)
ParseLines(st, ls) ==
    IF ls = <<>> THEN st ELSE ParseLines(ParseLine(st, Head(ls)), Tail(ls))

\* parse_markdown_to_table(markdown_content), as one function.
ParseMarkdownToTable(markdown_content) ==
    Finalize(ParseLines(ParseState(PyNone, <<>>, <<>>), Split(markdown_content, "\n")))

\* Lines a Markdown file is made of in the model.
LinePool ==
    { "## S", "##  T ", "## ",
      "### A1: v", "### B2 :x:y ", "### A1: a### b", "### C3",
      "note: text" }

RECURSIVE LineSeqs(_)
LineSeqs(k) ==
    IF k = 0 THEN {<<>>}
    ELSE LET P == LineSeqs(k - 1)
         IN  P \cup {Append(q, l) : q \in P, l \in LinePool}

InitParse ==
    /\ content \in {JoinLines(q) : q \in LineSeqs(MaxLines)}
    /\ lines = <<>>
    /\ lineNo = 0
    /\ current_sheet = PyNone
    /\ current_data = <<>>
    /\ tables = <<>>
    /\ parsePc = "idle"
    /\ IdleSheet
    /\ IdleColumn
    /\ IdleGrid
    /\ IdleBook

\* Lines 12-15: the text is split and the locals are set.
ParseBegin ==
    /\ parsePc = "idle"
    /\ lines' = Split(content, "\n")
    /\ lineNo' = 0
    /\ current_sheet' = PyNone
    /\ current_data' = <<>>
    /\ tables' = <<>>
    /\ parsePc' = "loop"
    /\ UNCHANGED <<content, sheetVars, colVars, gridVars, bookVars>>

\* Lines 17-28: one iteration of the loop.
ParseStep ==
    /\ parsePc = "loop"
    /\ lineNo < Len(lines)
    /\ LET st == ParseLine(ParseState(current_sheet, current_data, tables),
                           lines[lineNo + 1])
       IN  /\ current_sheet' = st.current_sheet
           /\ current_data' = st.current_data
           /\ tables' = st.tables
    /\ lineNo' = lineNo + 1
    /\ UNCHANGED <<content, lines, parsePc, sheetVars, colVars, gridVars, bookVars>>

\* Lines 30-32: the end of the input.
ParseEnd ==
    /\ parsePc = "loop"
    /\ lineNo = Len(lines)
    /\ tables' = Finalize(ParseState(current_sheet, current_data, tables))
    /\ parsePc' = "done"
    /\ UNCHANGED <<content, lines, lineNo, current_sheet, current_data,
                   sheetVars, colVars, gridVars, bookVars>>

NextParse == ParseBegin \/ ParseStep \/ ParseEnd

SpecParse == InitParse /\ [][NextParse]_vars

\* What the parser is to return for a list of lines, stated line by line.
\* The "## " lines: each opens a section that runs to the next "## " line.
RefHeaders(ls) == {i \in 1..Len(ls) : StartsWith(ls[i], "## ")}

\* The name of the section opened at line i: the rest of the line, trimmed.
RefName(ls, i) == Strip(SubSeq(ls[i], 4, Len(ls[i])))

\* The last line of the section opened at line i.
RefSectionEnd(ls, i) ==
    IF \E j \in RefHeaders(ls) : j > i
    THEN (CHOOSE j \in RefHeaders(ls) : j > i /\ \A k \in RefHeaders(ls) : k > i => j <= k) - 1
    ELSE Len(ls)

\* A "### " line that contains a ':' gives a pair: the trimmed text between
\* "### " and the first ':', and the trimmed rest of the line.
RefIsPair(l) == StartsWith(l, "### ") /\ \E k \in 5..Len(l) : CharAt(l, k) = ":"

RefPair(l) ==
    LET k == CHOOSE k \in 5..Len(l) :
                CharAt(l, k) = ":" /\ \A j \in 5..(k - 1) : CharAt(l, j) # ":"
    IN  <<Strip(SubSeq(l, 5, k - 1)), Strip(SubSeq(l, k + 1, Len(l)))>>

\* The pairs of lines a..b, in input order.
RECURSIVE RefPairs(_, _, _)
RefPairs(ls, a, b) ==
    IF a > b THEN <<>>
    ELSE (IF RefIsPair(ls[a]) THEN <<RefPair(ls[a])>> ELSE <<>>) \o RefPairs(ls, a + 1, b)

\* The sections that accumulated at least one pair.  A section whose name is
\* empty is read as no sheet being open.
RefFilled(ls) ==
    {i \in RefHeaders(ls) :
        RefName(ls, i) # "" /\ RefPairs(ls, i + 1, RefSectionEnd(ls, i)) # <<>>}

\* C9: parse_markdown_to_table returns a table for exactly the "## <name>"
\* sections that accumulated at least one pair; a table holds, in input
\* order, one pair per "### " line of its section that contains a ':', the
\* coordinate being the trimmed text between "### " and the first ':' and the
\* value the trimmed rest of the line, unchanged; every other line, and a
\* "### " line before any "## " line, contributes nothing.  (When two sections
\* have the same name the table is the later one's, as in a dict.)
C9_ParserStateMachine ==
    parsePc = "done" =>
        /\ DictKeys(tables) = {RefName(lines, i) : i \in RefFilled(lines)}
        /\ \A i \in RefFilled(lines) :
              (\A j \in RefFilled(lines) : RefName(lines, j) = RefName(lines, i) => j <= i)
              => DictGet(tables, RefName(lines, i))
                    = RefPairs(lines, i + 1, RefSectionEnd(lines, i))

---------------------------------------------------------------------------
(* create_excel_like_grid (md2excel_tbl.py, lines 35-48).                  *)

\* The character classes [A-Z] and \d of the pattern.
UpperClass == CharsOf(UpperLetters)
DigitClass == CharsOf(Digits)

IsUpper(c) == c \in UpperClass
IsDigit(c) == c \in DigitClass

\* The end of the longest run of characters of class `cls` that starts at i
\* (i - 1 when s[i] is not of the class).
RunEnd(s, i, cls) ==
    IF \E j \in i..Len(s) : CharAt(s, j) \notin cls
    THEN (CHOOSE j \in i..Len(s) :
            CharAt(s, j) \notin cls /\ \A k \in i..(j - 1) : CharAt(s, k) \in cls) - 1
    ELSE Len(s)

\* Where ([A-Z]+)(\d+) can match from: an uppercase letter whose run of
\* uppercase letters is followed by a digit.
MatchStarts(s) ==
    {i \in 1..Len(s) :
        /\ IsUpper(CharAt(s, i))
        /\ LET e == RunEnd(s, i, UpperClass)
           IN  e < Len(s) /\ IsDigit(CharAt(s, e + 1))}

\* Series.str.extract(r'([A-Z]+)(\d+)') for one string: the groups of the
\* first (leftmost) match anywhere in the string, or NaN in both columns.
ExtractPosition(s) ==
    LET starts == MatchStarts(s)
    IN  IF starts = {}
        THEN [nan |-> TRUE, letters |-> "", digits |-> ""]
        ELSE LET i == CHOOSE i \in starts : \A j \in starts : i <= j
                 e == RunEnd(s, i, UpperClass)
             IN  [nan |-> FALSE,
                  letters |-> SubSeq(s, i, e),
                  digits |-> SubSeq(s, e + 1, RunEnd(s, e + 1, DigitClass))]

\* int(digits), as astype(int) computes it for a string of decimal digits.
RECURSIVE DigitsToInt(_, _)
DigitsToInt(s, acc) ==
    IF s = "" THEN acc
    ELSE DigitsToInt(Tail(s), 10 * acc + (IndexIn(Digits, Head(s)) - 1))

\* The table with the columns of lines 39-41 added: for each row its
\* df["Column"] and df["Row"].
WithColumnAndRow(df) ==
    [k \in 1..Len(df) |->
        LET positions == ExtractPosition(df[k][1])
        IN  [position |-> df[k][1],
             data |-> df[k][2],
             Column |-> ColumnNumber(positions.letters),
             Row |-> DigitsToInt(positions.digits, 0)]]

SetMax(S) == CHOOSE x \in S : \A y \in S : y <= x

\* The grid's row labels: range(1, Row.max() + 1), and any other row label
\* that grid.loc[row, column] = ... sets, which enlarges the index.
GridIndexNoLastRow(d) == 1..(SetMax({d[k].Row : k \in 1..Len(d)}) - 1)

GridIndex(d) ==
    (1..SetMax({d[k].Row : k \in 1..Len(d)})) \cup {d[k].Row : k \in 1..Len(d)}

\* The grid's column labels: range(1, Column.max() + 1).
GridColumns(d) == 1..SetMax({d[k].Column : k \in 1..Len(d)})

\* Lines 43-47 for one table: the rows are written in order, a later row
\* over an earlier one at the same place, and fillna("") fills the rest.
GridOf(df) ==
    LET d == WithColumnAndRow(df)
        index == GridIndex(d)
        columns == GridColumns(d)
        place == {<<d[k].Row, d[k].Column>> : k \in 1..Len(d)}
    IN  [index |-> index,
         columns |-> columns,
         at |-> [rc \in index \X columns |->
                    IF rc \notin place THEN ""
                    ELSE d[SetMax({k \in 1..Len(d) : <<d[k].Row, d[k].Column>> = rc})].data]]

\* The lambda of line 40 is applied to NaN when a position did not match:
\* reversed(NaN) raises TypeError.
Raises(df) == \E k \in 1..Len(df) : ExtractPosition(df[k][1]).nan

\* create_excel_like_grid(tables): the dict of the grids, or the exception.
RECURSIVE GridsOf(_)
GridsOf(tbls) ==
    IF tbls = <<>> THEN <<>>
    ELSE <<[key |-> tbls[1].key, val |-> GridOf(tbls[1].val)]>> \o GridsOf(Tail(tbls))

CreateExcelLikeGrid(tbls) ==
    IF \E i \in 1..Len(tbls) : Raises(tbls[i].val)
    THEN [raised |-> TRUE, grids |-> <<>>]
    ELSE [raised |-> FALSE, grids |-> GridsOf(tbls)]

\* The cell positions and cell data the tables of the model are made of.
PositionPool == {"A1", "C3", "B2", "AA1", "A01", "A0", "a1", "12"}
DataPool == {"v", "w"}

RECURSIVE EntrySeqs(_)
EntrySeqs(k) ==
    IF k = 0 THEN {<<>>}
    ELSE LET P == EntrySeqs(k - 1)
         IN  P \cup {Append(q, <<p, d>>) : q \in P, p \in PositionPool, d \in DataPool}

OtherTable == [key |-> "T", val |-> <<<<"B1", "w">>>>]

\* A parsed file: sheet S alone, or with a second sheet before or after it.
TablePool(q) ==
    { <<[key |-> "S", val |-> q]>>,
      <<[key |-> "S", val |-> q], OtherTable>>,
      <<OtherTable, [key |-> "S", val |-> q]>> }

\* Sheet S has from 1 to MaxEntries entries.
InitGrid ==
    /\ \E q \in EntrySeqs(MaxEntries) \ {<<>>} : grid_tables \in TablePool(q)
    /\ grids = <<>>
    /\ gridPc = "start"
    /\ IdleSheet
    /\ IdleColumn
    /\ IdleParse
    /\ IdleBook

\* create_excel_like_grid(tables)
CreateGrids ==
    /\ gridPc = "start"
    /\ LET r == CreateExcelLikeGrid(grid_tables)
       IN  /\ grids' = r.grids
           /\ gridPc' = IF r.raised THEN "raised" ELSE "done"
    /\ UNCHANGED <<grid_tables, sheetVars, colVars, parseVars, bookVars>>

NextGrid == CreateGrids

SpecGrid == InitGrid /\ [][NextGrid]_vars

\* A coordinate in the letter-run + digit-run pattern: some uppercase letters,
\* then some digits, and nothing else.
RefLetterCount(c) ==
    CHOOSE k \in 0..Len(c) :
        /\ \A i \in 1..k : IsUpper(CharAt(c, i))
        /\ (k < Len(c) => ~IsUpper(CharAt(c, k + 1)))

RefWellFormed(c) ==
    /\ RefLetterCount(c) >= 1
    /\ RefLetterCount(c) < Len(c)
    /\ \A i \in (RefLetterCount(c) + 1)..Len(c) : IsDigit(CharAt(c, i))

\* The decimal value of a digit run: the sum of digit * 10^place.
RECURSIVE RefDecimal(_)
RefDecimal(s) ==
    IF s = "" THEN 0
    ELSE (IndexIn(Digits, Head(s)) - 1) * (10 ^ (Len(s) - 1)) + RefDecimal(Tail(s))

RefCol(c) == BijectiveValue(SubSeq(c, 1, RefLetterCount(c)), 0)
RefRow(c) == RefDecimal(SubSeq(c, RefLetterCount(c) + 1, Len(c)))
RefCell(c) == <<RefRow(c), RefCol(c)>>

\* The grid of table t is exactly 1..maxRow by 1..maxCol, holds each entry's
\* value at its (row, column) and the empty string everywhere else.
RefExactGrid(t) ==
    LET df == t.val
        maxRow == SetMax({RefRow(df[k][1]) : k \in 1..Len(df)})
        maxCol == SetMax({RefCol(df[k][1]) : k \in 1..Len(df)})
    IN  /\ t.key \in DictKeys(grids)
        /\ LET g == DictGet(grids, t.key)
           IN  /\ g.index = 1..maxRow
               /\ g.columns = 1..maxCol
               /\ \A k \in 1..Len(df) : g.at[RefCell(df[k][1])] = df[k][2]
               /\ \A rc \in g.index \X g.columns :
                     rc \notin {RefCell(df[k][1]) : k \in 1..Len(df)} => g.at[rc] = ""

\* Every table of the file has pairwise distinct coordinates in the pattern.
RefDistinctCoordinates ==
    \A i \in 1..Len(grid_tables) :
        LET df == grid_tables[i].val
        IN  /\ \A k \in 1..Len(df) : RefWellFormed(df[k][1])
            /\ \A k, l \in 1..Len(df) : k # l => df[k][1] # df[l][1]

\* ... and moreover its coordinates have rows from 1 on and name pairwise
\* distinct cells.
RefDistinctCells ==
    /\ RefDistinctCoordinates
    /\ \A i \in 1..Len(grid_tables) :
          LET df == grid_tables[i].val
          IN  /\ \A k \in 1..Len(df) : RefRow(df[k][1]) >= 1
              /\ \A k, l \in 1..Len(df) : k # l => RefCell(df[k][1]) # RefCell(df[l][1])

\* C5, as claimed: for tables whose coordinates are pairwise distinct and in
\* the letter-run + digit-run pattern, create_excel_like_grid returns, for
\* each table, the grid 1..maxRow by 1..maxCol with each entry's value at its
\* (row, column) and the empty string in every other cell.
C5_GridForDistinctCoordinates ==
    (gridPc # "start" /\ RefDistinctCoordinates) =>
        /\ gridPc = "done"
        /\ \A i \in 1..Len(grid_tables) : RefExactGrid(grid_tables[i])

\* C5, amended: the same for tables whose coordinates, in the pattern, have
\* row numbers from 1 on and name pairwise distinct cells.
C5_GridForDistinctCells ==
    (gridPc # "start" /\ RefDistinctCells) =>
        /\ gridPc = "done"
        /\ \A i \in 1..Len(grid_tables) : RefExactGrid(grid_tables[i])

\* Entries A1 and C3 alone gave a 3 x 3 grid with 7 empty cells.
C5_Witness ==
    /\ gridPc = "done"
    /\ grid_tables = <<[key |-> "S", val |-> << <<"A1", "v">>, <<"C3", "w">> >>]>>
    /\ LET g == DictGet(grids, "S")
       IN  /\ g.index = 1..3
           /\ g.columns = 1..3
           /\ g.at[<<1, 1>>] = "v"
           /\ g.at[<<3, 3>>] = "w"
           /\ Cardinality({rc \in DOMAIN g.at : g.at[rc] = ""}) = 7

\* C7: create_excel_like_grid completes without raising whatever the
\* coordinates; an entry whose coordinate is not in the pattern is skipped,
\* and every table of the file gets its grid, with each well-formed entry
\* (the last one written to its cell) at its (row, column).
C7_MalformedCoordinatesSkipped ==
    gridPc # "start" =>
        /\ gridPc = "done"
        /\ \A i \in 1..Len(grid_tables) :
              LET t == grid_tables[i]
                  df == t.val
              IN  /\ t.key \in DictKeys(grids)
                  /\ \A k \in 1..Len(df) :
                        (/\ RefWellFormed(df[k][1])
                         /\ \A l \in (k + 1)..Len(df) :
                               RefWellFormed(df[l][1]) => RefCell(df[l][1]) # RefCell(df[k][1]))
                        => /\ RefCell(df[k][1]) \in DOMAIN DictGet(grids, t.key).at
                           /\ DictGet(grids, t.key).at[RefCell(df[k][1])] = df[k][2]

---------------------------------------------------------------------------
(* Workbooks: the sheet titles in order, and the worksheet of each title.  *)
(* A worksheet's cells are a function on the positions it holds; a         *)
(* position it does not hold reads as None.                                *)

SUMMARY_SHEET_NAME == "Sheet_Structure_Summary"

\* Stands for the Japanese heading of the summary section of the Markdown
\* output (line 36 of extract_xlsxcells.py, line 65 of md2excel_tbl.py).
MD_SUMMARY_TITLE == "SheetKouseiSummary"

\* Stands for the Japanese "# <file name label>: " of line 33.
MD_FILE_LABEL == "# FileName: "

\* Stands for the opening code fence of lines 37 and 46 and the closing one
\* of lines 39 and 51 (three backquotes).
FENCE_OPEN == "~~~markdown"
FENCE_CLOSE == "~~~"

SUMMARY_HEADER == "---WorkbookSheetStructure---"

EmptySheet == [cells |-> <<>>, merged |-> {}]

CellValue(w, r, c) == IF <<r, c>> \in DOMAIN w.cells THEN w.cells[<<r, c>>] ELSE PyNone

\* ws.cell(row=r, column=c, value=v)
SetCell(w, r, c, v) ==
    [w EXCEPT !.cells = [x \in (DOMAIN w.cells) \cup {<<r, c>>} |->
                            IF x = <<r, c>> THEN v ELSE w.cells[x]]]

\* ws.max_row and ws.max_column
max_row(w) == IF DOMAIN w.cells = {} THEN 1 ELSE SetMax({x[1] : x \in DOMAIN w.cells})
max_column(w) == IF DOMAIN w.cells = {} THEN 1 ELSE SetMax({x[2] : x \in DOMAIN w.cells})

\* wb.create_sheet(title=t): a new, empty sheet after the others.
CreateSheet(book, t) ==
    [sheetnames |-> Append(book.sheetnames, t),
     sheets |-> [x \in Range(book.sheetnames) \cup {t} |->
                    IF x = t THEN EmptySheet ELSE book.sheets[x]]]

\* f"SheetIndex={idx};SheetName={sheet_name}"
SummaryLine(idx, sheet_name) ==
    "SheetIndex=" \o ToString(idx) \o ";SheetName=" \o sheet_name

\* Lines 131-135 with the test of line 132 left out.
SummarySheetAlwaysCreated(book) == CreateSheet(book, SUMMARY_SHEET_NAME)

\* Lines 131-135 of excelrefine.py: the summary sheet is reused or created.
SummarySheetEnsured(book) ==
    IF SUMMARY_SHEET_NAME \in Range(book.sheetnames)
    THEN book
    ELSE CreateSheet(book, SUMMARY_SHEET_NAME)

\* Lines 138-141: the rows written for sheets k.. of the list.
RECURSIVE WriteSummaryRows(_, _, _)
WriteSummaryRows(w, names, k) ==
    IF k > Len(names) THEN w
    ELSE WriteSummaryRows(SetCell(w, k + 1, 1, PyStr(SummaryLine(k, names[k]))),
                          names, k + 1)

\* excelrefine.annotate_sheet_structure(wb)
AnnotateSheetStructureOf(book) ==
    LET b == SummarySheetEnsured(book)
        summary_ws == SetCell(b.sheets[SUMMARY_SHEET_NAME], 1, 1, PyStr(SUMMARY_HEADER))
    IN  [b EXCEPT !.sheets[SUMMARY_SHEET_NAME] =
                        WriteSummaryRows(summary_ws, b.sheetnames, 1)]

\* extract_xlsxcells.annotate_sheet_structure(workbook)
RECURSIVE SummaryRowsText(_, _)
SummaryRowsText(names, k) ==
    IF k > Len(names) THEN ""
    ELSE SummaryLine(k, names[k]) \o "\n" \o SummaryRowsText(names, k + 1)

SummaryText(book) == SUMMARY_HEADER \o "\n" \o SummaryRowsText(book.sheetnames, 1)

\* extract_non_empty_cells(sheet): the truthy cells from position (r, c) on,
\* row by row and, in a row, column by column; a dict in insertion order.
RECURSIVE NonEmptyCellsFrom(_, _, _)
NonEmptyCellsFrom(w, r, c) ==
    IF r > max_row(w) THEN <<>>
    ELSE IF c > max_column(w) THEN NonEmptyCellsFrom(w, r + 1, 1)
    ELSE (IF Truthy(CellValue(w, r, c))
          THEN <<[key |-> Coordinate(r, c), val |-> CellValue(w, r, c)]>>
          ELSE <<>>) \o NonEmptyCellsFrom(w, r, c + 1)

ExtractNonEmptyCells(w) ==
    IF DOMAIN w.cells = {} THEN <<>> ELSE NonEmptyCellsFrom(w, 1, 1)

\* Lines 48-49: one "### <cell>: <value>" line per item.
RECURSIVE CellLines(_)
CellLines(items) ==
    IF items = <<>> THEN ""
    ELSE "### " \o items[1].key \o ": " \o Format(items[1].val) \o "\n"
         \o CellLines(Tail(items))

\* Lines 42-51 for one sheet.
SheetSection(book, sheet_name) ==
    "## " \o sheet_name \o "\n"
    \o FENCE_OPEN \o "\n"
    \o CellLines(ExtractNonEmptyCells(book.sheets[sheet_name]))
    \o FENCE_CLOSE \o "\n\n"

\* Lines 41-51: the loop over workbook.sheetnames.
RECURSIVE SheetSections(_, _)
SheetSections(book, names) ==
    IF names = <<>> THEN ""
    ELSE SheetSection(book, names[1]) \o SheetSections(book, Tail(names))

\* generate_markdown_from_excel(file_path), for the workbook loaded from it.
GenerateMarkdown(file_path, book) ==
    LET parts == Split(file_path, "/")
        file_name == parts[Len(parts)]
    IN  MD_FILE_LABEL \o file_name \o "\n\n"
        \o "## " \o MD_SUMMARY_TITLE \o "\n"
        \o FENCE_OPEN \o "\n"
        \o SummaryText(book)
        \o FENCE_CLOSE \o "\n\n"
        \o SheetSections(book, book.sheetnames)

\* Lines 162-170: unmerge_cells_and_annotate on every sheet but the summary
\* sheet; order[t] is the order in which sheet t lists its merged ranges.
UnmergeDataSheets(book, order) ==
    [book EXCEPT !.sheets = [t \in DOMAIN book.sheets |->
                                IF t = SUMMARY_SHEET_NAME THEN book.sheets[t]
                                ELSE UnmergeAll(book.sheets[t], order[t])]]

\* Lines 65-73 of md2excel_tbl.py: the summary table if there is one, then
\* every grid.  (The table has by then the columns of lines 40-41.)
RECURSIVE GridSections(_)
GridSections(gs) ==
    IF gs = <<>> THEN <<>>
    ELSE <<[title |-> gs[1].key, kind |-> "grid", body |-> gs[1].val]>>
         \o GridSections(Tail(gs))

OutputSections(tbls, gs) ==
    (IF MD_SUMMARY_TITLE \in DictKeys(tbls)
     THEN <<[title |-> MD_SUMMARY_TITLE, kind |-> "table",
             body |-> WithColumnAndRow(DictGet(tbls, MD_SUMMARY_TITLE))]>>
     ELSE <<>>)
    \o GridSections(gs)

---------------------------------------------------------------------------
(* The workbooks of the model.                                             *)

FILE_PATH == "data-input/book.xlsx"

Titles == {"Data", "Notes", SUMMARY_SHEET_NAME, MD_SUMMARY_TITLE}

TotalCells(f) == [c \in Cells |-> IF c \in DOMAIN f THEN f[c] ELSE PyNone]

\* The worksheet a data sheet of a given title holds when loaded.
LoadedSheet(t) ==
    CASE t = "Data" ->
            [cells |-> TotalCells(<<1, 1>> :> PyStr("Hello") @@ <<2, 1>> :> PyStr("x")),
             merged |-> {[min_row |-> 1, min_col |-> 1, max_row |-> 1, max_col |-> 2]}]
      [] t = "Notes" ->
            [cells |-> TotalCells(<<1, 2>> :> PyInt(7) @@ <<2, 3>> :> PyStr("n: 1")),
             merged |-> {}]
      [] t = MD_SUMMARY_TITLE ->
            [cells |-> TotalCells(<<1, 1>> :> PyStr("k")), merged |-> {}]
      [] OTHER -> EmptySheet

RECURSIVE TitleSeqs(_)
TitleSeqs(k) ==
    IF k = 0 THEN {<<>>}
    ELSE LET P == TitleSeqs(k - 1)
         IN  P \cup {Append(q, t) : <<q, t>> \in {x \in P \X Titles : x[2] \notin Range(x[1])}}

BookOf(names) == [sheetnames |-> names, sheets |-> [t \in Range(names) |-> LoadedSheet(t)]]

\* A loaded workbook: at most MaxSheets sheets with distinct titles; a summary
\* sheet it already has is empty or is the one an earlier run left.
Workbooks(k) ==
    UNION {{BookOf(names)} \cup
           (IF SUMMARY_SHEET_NAME \in Range(names)
            THEN {AnnotateSheetStructureOf(BookOf(names))} ELSE {})
           : names \in TitleSeqs(k) \ {<<>>}}

InitBook ==
    /\ wb0 \in Workbooks(MaxSheets)
    /\ wb = wb0
    /\ IdleBookOutputs
    /\ IdleSheet
    /\ IdleColumn
    /\ IdleParse
    /\ IdleGrid

\* excelrefine.annotate_sheet_structure(wb)
AnnotateSheetStructure ==
    /\ calls < MaxCalls
    /\ wb' = AnnotateSheetStructureOf(wb)
    /\ calls' = calls + 1
    /\ UNCHANGED <<wb0, unmerged, summary, markdown_output, md_tables, outfile, outPc,
                   sheetVars, colVars, parseVars, gridVars>>

\* process_excel_for_markdown(input_file, output_file), on the loaded workbook.
ProcessExcelForMarkdown ==
    /\ calls < MaxCalls
    /\ unmerged = {}
    /\ LET b == AnnotateSheetStructureOf(wb)
           data == {t \in Range(b.sheetnames) : t # SUMMARY_SHEET_NAME}
       IN  /\ \E order \in [DOMAIN b.sheets -> UNION {Orders(b.sheets[t].merged) : t \in DOMAIN b.sheets}] :
                /\ \A t \in DOMAIN b.sheets : order[t] \in Orders(b.sheets[t].merged)
                /\ wb' = UnmergeDataSheets(b, order)
           /\ unmerged' = data
    /\ calls' = calls + 1
    /\ UNCHANGED <<wb0, summary, markdown_output, md_tables, outfile, outPc,
                   sheetVars, colVars, parseVars, gridVars>>

\* extract_xlsxcells.annotate_sheet_structure(workbook)
AnnotateSheetStructureText ==
    /\ summary' = SummaryText(wb)
    /\ UNCHANGED <<wb0, wb, calls, unmerged, markdown_output, md_tables, outfile, outPc,
                   sheetVars, colVars, parseVars, gridVars>>

\* generate_markdown_from_excel(file_path)
GenerateMarkdownFromExcel ==
    /\ outPc = "start"
    /\ markdown_output' = GenerateMarkdown(FILE_PATH, wb)
    /\ UNCHANGED <<wb0, wb, calls, unmerged, summary, md_tables, outfile, outPc,
                   sheetVars, colVars, parseVars, gridVars>>

\* process_markdown_directory, for the one Markdown file written before.
ProcessMarkdownDirectory ==
    /\ outPc = "start"
    /\ markdown_output # ""
    /\ LET tbls == ParseMarkdownToTable(markdown_output)
           r == CreateExcelLikeGrid(tbls)
       IN  /\ md_tables' = tbls
           /\ outfile' = IF r.raised THEN <<>> ELSE OutputSections(tbls, r.grids)
           /\ outPc' = IF r.raised THEN "raised" ELSE "done"
    /\ UNCHANGED <<wb0, wb, calls, unmerged, summary, markdown_output,
                   sheetVars, colVars, parseVars, gridVars>>

NextBook ==
    \/ AnnotateSheetStructure
    \/ ProcessExcelForMarkdown
    \/ AnnotateSheetStructureText
    \/ GenerateMarkdownFromExcel
    \/ ProcessMarkdownDirectory

SpecBook == InitBook /\ [][NextBook]_vars

---------------------------------------------------------------------------
(* The sheet-structure summary.                                            *)

\* The summary the contract asks for, for a list of sheet names: the header,
\* then one line for each name, numbered from 1.
RefSummary(names) ==
    <<SUMMARY_HEADER>> \o
    [i \in 1..Len(names) |-> "SheetIndex=" \o ToString(i) \o ";SheetName=" \o names[i]]

\* Column A of the summary worksheet, from row 1 to the last row it holds.
SummaryColumn(book) ==
    LET w == book.sheets[SUMMARY_SHEET_NAME]
    IN  [r \in 1..max_row(w) |-> CellValue(w, r, 1)]

RECURSIVE RefTextOf(_)
RefTextOf(ls) == IF ls = <<>> THEN "" ELSE Head(ls) \o "\n" \o RefTextOf(Tail(ls))

\* How many times a title occurs in a list of sheet names.
Occurrences(names, t) == Cardinality({i \in 1..Len(names) : names[i] = t})

\* C2: a call of either form of annotate_sheet_structure on a workbook whose
\* sheets are s1..sn yields the header followed by exactly n lines, line i
\* being SheetIndex=i;SheetName=si: in column A of the summary worksheet for
\* the worksheet form, in the returned text for the text form.
C2_SummaryListsTheWorkbookSheets ==
    [][/\ (calls' # calls) =>
              SummaryColumn(wb') = [i \in 1..(Len(wb.sheetnames) + 1) |->
                                       PyStr(RefSummary(wb.sheetnames)[i])]
       /\ (summary' # summary) => summary' = RefTextOf(RefSummary(wb.sheetnames))]_vars

\* C3: every call of excelrefine.annotate_sheet_structure leaves exactly one
\* sheet named Sheet_Structure_Summary in the workbook, and a call on a
\* workbook that already has that sheet leaves the list of sheet names as it
\* was.
C3_OneSummarySheet ==
    [][(calls' # calls) =>
           /\ Occurrences(wb'.sheetnames, SUMMARY_SHEET_NAME) = 1
           /\ (SUMMARY_SHEET_NAME \in Range(wb.sheetnames)) =>
                  wb'.sheetnames = wb.sheetnames]_vars

\* Two calls were made on a workbook loaded without a summary sheet: the
\* first created the sheet, the second found it.
C3_Witness ==
    /\ calls = 2
    /\ SUMMARY_SHEET_NAME \notin Range(wb0.sheetnames)
    /\ wb.sheetnames = Append(wb0.sheetnames, SUMMARY_SHEET_NAME)

\* C8: the summary sheet is never handled as a data sheet: it is not among
\* the sheets process_excel_for_markdown unmerges, it gets no per-sheet
\* section in the Markdown generate_markdown_from_excel returns, and
\* process_markdown_directory writes no grid for the summary section.
C8_SummaryNeverADataSheet ==
    /\ SUMMARY_SHEET_NAME \notin unmerged
    /\ ("## " \o SUMMARY_SHEET_NAME) \notin Range(Split(markdown_output, "\n"))
    /\ \A i \in 1..Len(outfile) :
           outfile[i].kind = "grid" =>
               outfile[i].title \notin {SUMMARY_SHEET_NAME, MD_SUMMARY_TITLE}

---------------------------------------------------------------------------
(* Rendering one sheet and parsing it back.                                *)

RoundTripTitles == {"S", "T2"}

RoundTripValues == {PyStr("v"), PyStr("x:y"), PyStr("a### b"), PyInt(7)}

\* A workbook of one sheet holding at most MaxEntries values.
RoundTripBooks(k) ==
    {[sheetnames |-> <<t>>, sheets |-> [x \in {t} |-> [cells |-> f, merged |-> {}]]] :
        <<t, f>> \in RoundTripTitles \X
            UNION {[D -> RoundTripValues] :
                     D \in {X \in SUBSET Cells : Cardinality(X) <= k}}}

InitRoundTrip ==
    /\ wb0 \in RoundTripBooks(MaxEntries)
    /\ wb = wb0
    /\ IdleBookOutputs
    /\ IdleSheet
    /\ IdleColumn
    /\ IdleParse
    /\ IdleGrid

NextRoundTrip ==
    \/ GenerateMarkdownFromExcel
    \/ ProcessMarkdownDirectory

SpecRoundTrip == InitRoundTrip /\ [][NextRoundTrip]_vars

\* No line of the text starts with a heading marker.
RefNoMarkerAtLineStart(text) ==
    \A l \in Range(Split(text, "\n")) : ~StartsWith(l, "## ") /\ ~StartsWith(l, "### ")

\* The (coordinate, value) pairs of the mapping a sheet holds, values as text.
RefMapping(w) ==
    {<<Coordinate(x[1], x[2]), Format(w.cells[x])>> :
        x \in {y \in DOMAIN w.cells : Truthy(w.cells[y])}}

\* C4: when no value of a sheet's coordinate->value mapping has "## " or
\* "### " at a line start, the table parsed for that sheet from the rendered
\* Markdown holds the same set of (coordinate, value) pairs as the mapping.
C4_RoundTrip ==
    (outPc # "start") =>
        \A t \in Range(wb.sheetnames) :
            LET mapping == RefMapping(wb.sheets[t])
            IN  (mapping # {} /\ \A p \in mapping : RefNoMarkerAtLineStart(p[2])) =>
                    /\ t \in DictKeys(md_tables)
                    /\ Range(DictGet(md_tables, t)) = mapping

====
